---- MODULE Spec2Model ----
(***************************************************************************)
(* Model of src/js/pages/typewriter.js: the asynchronous effectTypewriter  *)
(* function, the control object it builds (pause, resume, stop) and the    *)
(* caller that awaits it (showcase, effect 4).                             *)
(*                                                                         *)
(* JavaScript is single-threaded: the code between two awaits runs         *)
(* atomically.  The effect is therefore one action per await it can be     *)
(* resumed from; pc names the await the effect is suspended at (by its     *)
(* source line).  Strings are sequences of one-character strings.  Delays  *)
(* are suspensions; their durations are not modelled.                      *)
(***************************************************************************)
EXTENDS Naturals, Sequences, FiniteSets

\* ------------------------------------------------------------------ bounds
MaxText == 2
MaxInitial == 1
MaxContent == 2

TextChars == {"a", "b"}
InitialChars == {"x"}
ContentChars == {"z"}

\* The suffix showcase appends while the loop is paused: " (pausado)".
Pausado == "P"

\* Default of the cursorBlinkSpeedMS parameter.
CursorBlinkSpeedMS == 600

\* The style property --cursor-blink-speed: not set, or set to `${n}ms`.
Unset == <<>>
Ms(n) == <<n>>

Strings(chars, n) == UNION {[1..k -> chars] : k \in 0..n}

VARIABLES
  \* the call's arguments (immutable once the effect starts)
  text, initialText, cursor, cursorBlink, loop, erase, eraseOnly, onFinish,
  \* the page: whether the selector resolves to the element, and the element
  elementFound, textContent, withCursor, blinkSpeed,
  \* the effect's locals
  hadCursorBefore, paused, stopped, i, pc,
  \* the promise the async function returns, and the awaiting caller
  promise, loopControls, callerPc,
  \* history: the values assigned to textContent since the last reset, the
  \* terminal events (cursor cleanup, onFinish, return) in order, and whether
  \* the effect has suspended at a pause poll
  hist, log, polled,
  \* a second invocation whose turn it is not: <<>> or <<its state>>
  other

config == <<text, initialText, cursor, cursorBlink, loop, erase, eraseOnly,
            onFinish, elementFound>>
flags == <<paused, stopped>>
caller == <<loopControls, callerPc>>
effect == <<textContent, withCursor, blinkSpeed, hadCursorBefore, i, pc,
            promise, hist, log, polled>>
vars == <<config, flags, caller, effect, other>>

\* the awaits of delay(100) in the three pause polls
PollPcs == {"poll69", "poll85", "poll100"}

\* ------------------------------------------------------------- the effect
\* The part of the state the effect's code writes, as one record.
st ==
  [pc |-> pc, i |-> i, textContent |-> textContent, withCursor |-> withCursor,
   blinkSpeed |-> blinkSpeed, promise |-> promise, hist |-> hist, log |-> log]

Set(s) ==
  /\ pc' = s.pc
  /\ i' = s.i
  /\ textContent' = s.textContent
  /\ withCursor' = s.withCursor
  /\ blinkSpeed' = s.blinkSpeed
  /\ promise' = s.promise
  /\ hist' = s.hist
  /\ log' = s.log
  /\ polled' = (polled \/ s.pc \in PollPcs)

\* element.textContent = v
Assign(s, v) == [s EXCEPT !.textContent = v, !.hist = Append(@, v)]

\* str.slice(0, -1)
Slice(str) == IF Len(str) = 0 THEN str ELSE SubSeq(str, 1, Len(str) - 1)

\* return controls
Return(s) ==
  [s EXCEPT !.promise = "controls", !.pc = "returned",
            !.log = Append(@, "return")]

\* if (onFinish) await onFinish(); return controls
Callback(s) ==
  IF onFinish
  THEN [s EXCEPT !.pc = "onFinish121", !.log = Append(@, "onFinish")]
  ELSE Return(s)

\* Variant: the marker is removed and the blink-period property is left.
Cleanup_KeepsBlink(s) ==
  IF cursor /\ ~hadCursorBefore
  THEN [s EXCEPT !.withCursor = FALSE, !.log = Append(@, "cleanup")]
  ELSE s

\* cursor cleanup
Cleanup(s) ==
  IF cursor /\ ~hadCursorBefore
  THEN [s EXCEPT !.withCursor = FALSE, !.blinkSpeed = Unset,
                 !.log = Append(@, "cleanup")]
  ELSE s

\* Variant: the cursor cleanup is skipped.
Finish_NoCleanup(s) == Callback(s)

\* the code after the do-while loop
Finish(s) == Callback(Cleanup(s))

RECURSIVE LoopBody(_)

\* Variant: the loop body runs once whatever loop is.
LoopCond_Once(s) == Finish(s)

\* } while (loop && !stopped);
LoopCond(s) == IF loop /\ ~stopped THEN LoopBody(s) ELSE Finish(s)

\* Variant: the wait at the end of the loop body does not depend on loop.
LoopTail_AlwaysWaits(s) == [s EXCEPT !.pc = "delayEnd111"]

\* if (loop) await delay(delayEnd);  at the end of the loop body
LoopTail(s) == IF loop THEN [s EXCEPT !.pc = "delayEnd111"] ELSE LoopCond(s)

\* after the erase loop: if (stopped) break;
AfterErase(s) == IF stopped THEN Finish(s) ELSE LoopTail(s)

\* one round of the erase loop's body
EraseStep(s) ==
  IF paused /\ ~stopped THEN [s EXCEPT !.pc = "poll100"]
  ELSE IF stopped THEN AfterErase(s)
  ELSE [Assign(s, Slice(s.textContent)) EXCEPT !.pc = "char104"]

\* for (let i = text.length; i > 0; i--)
EraseFor(s) == IF s.i > 0 THEN EraseStep(s) ELSE AfterErase(s)

\* Variant: the erase loop runs over the whole content, as the erase-only
\* loop does, instead of over text.length characters.
AfterDelayEnd_EraseAll(s) ==
  IF erase THEN EraseFor([s EXCEPT !.i = Len(s.textContent)]) ELSE LoopTail(s)

\* after await delay(delayEnd): if (erase) { ... }
AfterDelayEnd(s) ==
  IF erase THEN EraseFor([s EXCEPT !.i = Len(text)]) ELSE LoopTail(s)

\* after the write loop: if (stopped) break; await delay(delayEnd);
AfterWrite(s) == IF stopped THEN Finish(s) ELSE [s EXCEPT !.pc = "delayEnd95"]

\* Variant: the pause poll does not look at stopped.
WriteStep_PollIgnoresStop(s) ==
  IF paused THEN [s EXCEPT !.pc = "poll85"]
  ELSE IF stopped THEN AfterWrite(s)
  ELSE [Assign(s, s.textContent \o <<text[s.i + 1]>>) EXCEPT !.pc = "char89"]

\* one round of the write loop's body
WriteStep(s) ==
  IF paused /\ ~stopped THEN [s EXCEPT !.pc = "poll85"]
  ELSE IF stopped THEN AfterWrite(s)
  ELSE [Assign(s, s.textContent \o <<text[s.i + 1]>>) EXCEPT !.pc = "char89"]

\* Variant: the write loop stops one character short.
WriteFor_OneShort(s) == IF s.i + 1 < Len(text) THEN WriteStep(s) ELSE AfterWrite(s)

\* for (let i = 0; i < text.length; i++)
WriteFor(s) == IF s.i < Len(text) THEN WriteStep(s) ELSE AfterWrite(s)

\* Variant: the erase-only case leaves the loop once its content is erased.
AfterEraseOnly_Breaks(s) == Finish(s)

\* after the erase-only loop: if (stopped) break; if (loop) await ...; continue;
AfterEraseOnly(s) ==
  IF stopped THEN Finish(s)
  ELSE IF loop THEN [s EXCEPT !.pc = "delayEnd77"]
  ELSE LoopCond(s)

\* one round of the erase-only loop's body
EraseOnlyStep(s) ==
  IF paused /\ ~stopped THEN [s EXCEPT !.pc = "poll69"]
  ELSE IF stopped THEN AfterEraseOnly(s)
  ELSE [Assign(s, Slice(s.textContent)) EXCEPT !.pc = "char73"]

\* for (let i = currentLength; i > 0; i--)
EraseOnlyFor(s) == IF s.i > 0 THEN EraseOnlyStep(s) ELSE AfterEraseOnly(s)

\* element.textContent = initialText, which starts a new run of values
Reset(s) ==
  [s EXCEPT !.textContent = initialText, !.hist = <<initialText>>, !.i = 0]

\* Variant: the erase-only case is not told apart from the normal one.
LoopBody_NoEraseOnly(s) == WriteFor(Reset(s))

\* do { ... : the start of the loop body
LoopBody(s) ==
  IF eraseOnly
  THEN EraseOnlyFor([s EXCEPT !.i = Len(s.textContent)])
  ELSE WriteFor(Reset(s))

\* ---------------------------------------------------------------- actions
\* Variant: the call goes on without testing the element lookup's result.
Call_NoLookupTest ==
  /\ pc = "idle"
  /\ hadCursorBefore' = withCursor
  /\ IF cursor /\ ~withCursor
     THEN /\ withCursor' = TRUE
          /\ blinkSpeed' = IF cursorBlink THEN Ms(CursorBlinkSpeedMS) ELSE Ms(0)
     ELSE UNCHANGED <<withCursor, blinkSpeed>>
  /\ pc' = "delayStart61"
  /\ UNCHANGED <<textContent, i, promise, hist, log, polled>>
  /\ UNCHANGED <<config, other, flags, caller>>

\* The call, up to await delay(delayStart) or the early return.
Call ==
  /\ pc = "idle"
  /\ IF ~elementFound
     THEN /\ pc' = "returned"
          /\ promise' = "undefined"
          /\ UNCHANGED <<textContent, withCursor, blinkSpeed, hadCursorBefore,
                         i, hist, log, polled>>
     ELSE /\ hadCursorBefore' = withCursor
          /\ IF cursor /\ ~withCursor
             THEN /\ withCursor' = TRUE
                  /\ blinkSpeed' = IF cursorBlink THEN Ms(CursorBlinkSpeedMS) ELSE Ms(0)
             ELSE UNCHANGED <<withCursor, blinkSpeed>>
          /\ pc' = "delayStart61"
          /\ UNCHANGED <<textContent, i, promise, hist, log, polled>>
  /\ UNCHANGED <<config, other, flags, caller>>

\* Resumption after await delay(delayStart).
DelayStartDone ==
  /\ pc = "delayStart61"
  /\ Set(LoopBody(st))
  /\ UNCHANGED <<config, other, flags, caller, hadCursorBefore>>

\* Variant: a paused round is given up with continue, so that the loop's
\* update runs before the next test.
PollDone_Continues ==
  /\ pc \in PollPcs
  /\ Set(CASE pc = "poll69" -> EraseOnlyFor([st EXCEPT !.i = @ - 1])
           [] pc = "poll85" -> WriteFor([st EXCEPT !.i = @ + 1])
           [] pc = "poll100" -> EraseFor([st EXCEPT !.i = @ - 1]))
  /\ UNCHANGED <<config, other, flags, caller, hadCursorBefore>>

\* Resumption after a 100 ms pause poll: the while condition is tested again.
PollDone ==
  /\ pc \in PollPcs
  /\ Set(CASE pc = "poll69" -> EraseOnlyStep(st)
           [] pc = "poll85" -> WriteStep(st)
           [] pc = "poll100" -> EraseStep(st))
  /\ UNCHANGED <<config, other, flags, caller, hadCursorBefore>>

\* Resumption after await delay(speedMS): the for loop's update and test.
CharDelayDone ==
  /\ pc \in {"char73", "char89", "char104"}
  /\ Set(CASE pc = "char73" -> EraseOnlyFor([st EXCEPT !.i = @ - 1])
           [] pc = "char89" -> WriteFor([st EXCEPT !.i = @ + 1])
           [] pc = "char104" -> EraseFor([st EXCEPT !.i = @ - 1]))
  /\ UNCHANGED <<config, other, flags, caller, hadCursorBefore>>

\* Resumption after await delay(delayEnd).
DelayEndDone ==
  /\ pc \in {"delayEnd77", "delayEnd95", "delayEnd111"}
  /\ Set(CASE pc = "delayEnd77" -> LoopCond(st)
           [] pc = "delayEnd95" -> AfterDelayEnd(st)
           [] pc = "delayEnd111" -> LoopCond(st))
  /\ UNCHANGED <<config, other, flags, caller, hadCursorBefore>>

\* Resumption after await onFinish().
OnFinishDone ==
  /\ pc = "onFinish121"
  /\ Set(Return(st))
  /\ UNCHANGED <<config, other, flags, caller, hadCursorBefore>>

\* The effect's next step.
Step ==
  Call \/ DelayStartDone \/ PollDone \/ CharDelayDone \/ DelayEndDone
    \/ OnFinishDone

\* The control object exists once the call has passed the element lookup.
HasControls == elementFound /\ pc # "idle"

\* Variant: paused is declared outside the function, one flag for every
\* invocation.
Pause_SharedFlag ==
  /\ HasControls
  /\ paused' = TRUE
  /\ other' = [k \in 1..Len(other) |-> [other[k] EXCEPT !.paused = TRUE]]
  /\ UNCHANGED <<config, stopped, caller, effect>>

\* controls.pause
Pause ==
  /\ HasControls
  /\ paused' = TRUE
  /\ UNCHANGED <<config, other, stopped, caller, effect>>

\* Variant: resume clears both flags.
Resume_ClearsStopped ==
  /\ HasControls
  /\ paused' = FALSE
  /\ stopped' = FALSE
  /\ UNCHANGED <<config, other, caller, effect>>

\* controls.resume
Resume ==
  /\ HasControls
  /\ paused' = FALSE
  /\ UNCHANGED <<config, other, stopped, caller, effect>>

\* Variant: stop also clears the container.
Stop_ClearsContent ==
  /\ HasControls
  /\ stopped' = TRUE
  /\ textContent' = <<>>
  /\ UNCHANGED <<config, other, paused, caller, withCursor, blinkSpeed,
                 hadCursorBefore, i, pc, promise, hist, log, polled>>

\* Variant: stop flips the flag instead of setting it.
Stop_Toggles ==
  /\ HasControls
  /\ stopped' = ~stopped
  /\ UNCHANGED <<config, other, paused, caller, effect>>

\* controls.stop
Stop ==
  /\ HasControls
  /\ stopped' = TRUE
  /\ UNCHANGED <<config, other, paused, caller, effect>>

\* const loopControls = await effectTypewriter({...}): the caller resumes
\* with the value the promise was resolved with.
AwaitDone ==
  /\ callerPc = "await168"
  /\ promise # "pending"
  /\ loopControls' = promise
  /\ callerPc' = "delay178"
  /\ UNCHANGED <<config, other, flags, effect>>

\* ------------------------------------------------------------------ Init
\* One invocation before its call.
InitInstance ==
  /\ text \in Strings(TextChars, MaxText)
  /\ initialText \in Strings(InitialChars, MaxInitial)
  /\ cursor \in BOOLEAN
  /\ cursorBlink \in BOOLEAN
  /\ loop \in BOOLEAN
  /\ erase \in BOOLEAN
  /\ eraseOnly \in BOOLEAN
  /\ onFinish \in BOOLEAN
  /\ elementFound \in BOOLEAN
  /\ textContent \in Strings(ContentChars, MaxContent)
  /\ withCursor \in BOOLEAN
  /\ blinkSpeed = Unset
  /\ hadCursorBefore = FALSE
  /\ paused = FALSE
  /\ stopped = FALSE
  /\ i = 0
  /\ pc = "idle"
  /\ promise = "pending"
  /\ loopControls = "none"
  /\ callerPc = "await168"
  /\ hist = <<textContent>>
  /\ log = <<>>
  /\ polled = FALSE

\* A single invocation.
Init == InitInstance /\ other = <<>>

\* The effect with its control object called at any time it exists: at any
\* suspension point of the running effect, and after it has returned.
Next == Step \/ Pause \/ Resume \/ Stop \/ AwaitDone

Spec == Init /\ [][Next]_vars

\* Timers fire and an awaited onFinish() settles: a suspended effect is
\* eventually resumed.
FairSpec == Spec /\ WF_vars(Step)

\* str.replace(" (pausado)", ""): the first occurrence is removed.
RECURSIVE ReplacePausado(_)
ReplacePausado(str) ==
  IF str = <<>> THEN str
  ELSE IF Head(str) = Pausado THEN Tail(str)
  ELSE <<Head(str)>> \o ReplacePausado(Tail(str))

\* showcase after await delay(2500): loopControls.pause() and the suffix.
\* With no element the call resolved with undefined and the method call throws.
ShowcasePause ==
  /\ callerPc = "delay178"
  /\ IF loopControls = "controls"
     THEN /\ paused' = TRUE
          /\ textContent' = textContent \o <<Pausado>>
          /\ callerPc' = "delay182"
     ELSE /\ callerPc' = "threw"
          /\ UNCHANGED <<paused, textContent>>
  /\ UNCHANGED <<config, other, stopped, loopControls, withCursor, blinkSpeed,
                 hadCursorBefore, i, pc, promise, hist, log, polled>>

\* showcase after await delay(1500): the suffix is removed, loopControls.resume().
ShowcaseResume ==
  /\ callerPc = "delay182"
  /\ textContent' = ReplacePausado(textContent)
  /\ paused' = FALSE
  /\ callerPc' = "delay187"
  /\ UNCHANGED <<config, other, stopped, loopControls, withCursor, blinkSpeed,
                 hadCursorBefore, i, pc, promise, hist, log, polled>>

\* showcase after await delay(5000): loopControls.stop(), then effect 5 starts.
ShowcaseStop ==
  /\ callerPc = "delay187"
  /\ stopped' = TRUE
  /\ callerPc' = "await191"
  /\ UNCHANGED <<config, other, paused, loopControls, effect>>

\* The caller that awaits the call and then drives the handle, as showcase
\* does for effect 4.
ShowcaseStep == AwaitDone \/ ShowcasePause \/ ShowcaseResume \/ ShowcaseStop

\* The program as written: the control object is reachable only through the
\* value the awaited call resolves with.  PollDone is left out: paused is set
\* by ShowcasePause alone, which needs the returned handle, so the running
\* effect never suspends at a pause poll.
NextShowcase ==
  Call \/ DelayStartDone \/ CharDelayDone \/ DelayEndDone \/ OnFinishDone
    \/ ShowcaseStep

SpecShowcase ==
  Init /\ [][NextShowcase]_vars /\ WF_vars(Step) /\ WF_vars(ShowcaseStep)

\* ------------------------------------------------------ two invocations
\* The state of the invocation whose turn it is: its arguments, its element,
\* its locals, its promise and its caller.
Me ==
  [text |-> text, initialText |-> initialText, cursor |-> cursor,
   cursorBlink |-> cursorBlink, loop |-> loop, erase |-> erase,
   eraseOnly |-> eraseOnly, onFinish |-> onFinish,
   elementFound |-> elementFound, textContent |-> textContent,
   withCursor |-> withCursor, blinkSpeed |-> blinkSpeed,
   hadCursorBefore |-> hadCursorBefore, paused |-> paused,
   stopped |-> stopped, i |-> i, pc |-> pc, promise |-> promise,
   loopControls |-> loopControls, callerPc |-> callerPc, hist |-> hist,
   log |-> log, polled |-> polled]

Load(r) ==
  /\ text' = r.text /\ initialText' = r.initialText /\ cursor' = r.cursor
  /\ cursorBlink' = r.cursorBlink /\ loop' = r.loop /\ erase' = r.erase
  /\ eraseOnly' = r.eraseOnly /\ onFinish' = r.onFinish
  /\ elementFound' = r.elementFound /\ textContent' = r.textContent
  /\ withCursor' = r.withCursor /\ blinkSpeed' = r.blinkSpeed
  /\ hadCursorBefore' = r.hadCursorBefore /\ paused' = r.paused
  /\ stopped' = r.stopped /\ i' = r.i /\ pc' = r.pc /\ promise' = r.promise
  /\ loopControls' = r.loopControls /\ callerPc' = r.callerPc
  /\ hist' = r.hist /\ log' = r.log /\ polled' = r.polled

\* The event loop turns to the other invocation: both are suspended at an
\* await (or not yet called), each with its own arguments, element, locals
\* and promise.
Switch ==
  /\ other # <<>>
  /\ Load(other[1])
  /\ other' = <<Me>>

\* The invocations that run side by side: each on its own element, which has
\* content and no cursor marker, with the default cursor and a callback.
TwoTexts == {<<"a">>, <<"a", "b">>}

TwoInstance(r) ==
  /\ r.text \in TwoTexts
  /\ r.initialText = <<"x">>
  /\ r.textContent = <<"z">>
  /\ r.cursor /\ r.cursorBlink /\ ~r.withCursor
  /\ r.onFinish
  /\ r.elementFound

InitTwo ==
  /\ InitInstance
  /\ TwoInstance(Me)
  /\ other \in {<<[Me EXCEPT !.text = t, !.loop = l, !.erase = e, !.eraseOnly = o]>> :
                   t \in TwoTexts, l \in BOOLEAN, e \in BOOLEAN, o \in BOOLEAN}

\* Two invocations interleaved at their awaits, each with its handle called
\* at any time.
NextTwo == Step \/ Pause \/ Resume \/ Stop \/ AwaitDone \/ Switch

SpecTwo == InitTwo /\ [][NextTwo]_vars

\* The looping write-and-erase effect with stop() never called.  OnFinishDone
\* is left out: C6_LoopNeverEnds shows that it is never enabled.
InitLoop == Init /\ elementFound /\ loop /\ erase /\ ~eraseOnly

NextLoop ==
  Call \/ DelayStartDone \/ PollDone \/ CharDelayDone \/ DelayEndDone
    \/ Pause \/ Resume

SpecLoop == InitLoop /\ [][NextLoop]_vars /\ WF_vars(Step)

\* ----------------------------------------------------------------- claims
Range(str) == {str[k] : k \in 1..Len(str)}

\* The effect has run to its end without stop() having been called.
Completed == elementFound /\ pc = "returned" /\ ~stopped

WriteOnly == ~erase /\ ~loop /\ ~eraseOnly
WriteErase == erase /\ ~loop /\ ~eraseOnly

\* C1: with erase=false, loop=false, eraseOnly=false and no stop(), the run
\* ends with content initialText followed by text, and from the reset on the
\* content has taken exactly Len(text)+1 values: initialText, then initialText
\* plus each successive prefix of text.
C1_WriteOnlyResult ==
  (Completed /\ WriteOnly) =>
    /\ textContent = initialText \o text
    /\ hist = [k \in 1..(Len(text) + 1) |-> initialText \o SubSeq(text, 1, k - 1)]

C1_Witness ==
  /\ Completed /\ WriteOnly
  /\ Len(text) = 2 /\ text[1] # text[2] /\ initialText # <<>>
  /\ Len(hist) = 3

\* C2 as stated: with erase=true, loop=false, eraseOnly=false and no stop(),
\* the content is empty at completion whatever initialText is.
C2_EmptyAfterErase == (Completed /\ WriteErase) => textContent = <<>>

\* C2 as amended: with erase=true, loop=false, eraseOnly=false and no stop(),
\* the content at completion is initialText: the erase phase removes the
\* Len(text) characters of text and leaves initialText in place, so the
\* content is empty exactly when initialText is empty.
C2_InitialTextAfterErase ==
  (Completed /\ WriteErase) =>
    /\ textContent = initialText
    /\ hist[Len(hist)] = initialText
    /\ Len(hist) = 2 * Len(text) + 1

C2_Witness ==
  /\ Completed /\ WriteErase
  /\ initialText # <<>> /\ Len(text) = 2
  /\ textContent = initialText

\* C3: with eraseOnly=true, every content change removes exactly one trailing
\* character, no character of text or initialText is ever written to the
\* container, and without stop() the content is empty at completion.
C3_EraseOnly ==
  (elementFound /\ eraseOnly) =>
    /\ \A k \in 1..(Len(hist) - 1) :
         Len(hist[k]) > 0 /\ hist[k + 1] = SubSeq(hist[k], 1, Len(hist[k]) - 1)
    /\ textContent = hist[Len(hist)]
    /\ Range(textContent) \cap (Range(text) \cup Range(initialText)) = {}
    /\ (Completed => textContent = <<>>)

C3_Witness ==
  /\ Completed /\ eraseOnly
  /\ Len(hist) = 3 /\ Len(hist[1]) = 2 /\ textContent = <<>>
  /\ text # <<>> /\ initialText # <<>>

\* C4: once stop() has been invoked, at whatever suspension point of the
\* running effect, the effect never changes the container content again.
C4_StopFreezesContent == [][stopped => textContent' = textContent]_vars

\* C5: from pause() until resume() or stop(), the effect makes no change to
\* the container content, in every phase and mode.
C5_PauseFreezesContent ==
  [][(paused /\ ~stopped) => textContent' = textContent]_vars

\* The terminal events of a run that found its element, in order.
ExpectedLog ==
  (IF cursor /\ ~hadCursorBefore THEN <<"cleanup">> ELSE <<>>)
    \o (IF onFinish THEN <<"onFinish">> ELSE <<>>) \o <<"return">>

\* C8: the awaiting caller holds nothing while the effect is in its start
\* delay, write, erase or end-delay phase or awaits onFinish; it holds the
\* handle only once the loop has ended, the cursor cleanup is done and
\* onFinish has completed.
C8_HandleOnlyAfterCompletion ==
  /\ pc # "returned" => (promise = "pending" /\ loopControls = "none")
  /\ loopControls = "controls" =>
       /\ pc = "returned"
       /\ log = ExpectedLog
       /\ (cursor /\ ~hadCursorBefore) => (~withCursor /\ blinkSpeed = Unset)

C8_Witness ==
  /\ loopControls = "controls"
  /\ log = <<"cleanup", "onFinish", "return">>
  /\ textContent = initialText \o text /\ Len(text) = 2

\* C10: when the selector resolves to no element the call is a silent no-op:
\* it goes straight from the call to its return, suspends at no delay,
\* changes neither content nor cursor state, does not invoke onFinish and
\* resolves with no control handle.
C10_AbsentElementNoOp ==
  [][~elementFound =>
       /\ UNCHANGED <<textContent, withCursor, blinkSpeed, hist, log, flags>>
       /\ log' = <<>>
       /\ pc' \in {"idle", "returned"}
       /\ promise' \in {"pending", "undefined"}
       /\ loopControls' \in {"none", "undefined"}]_vars

C10_Witness ==
  /\ ~elementFound /\ pc = "returned"
  /\ promise = "undefined" /\ loopControls = "undefined"
  /\ onFinish /\ cursor /\ ~withCursor /\ log = <<>>
  /\ text # <<>> /\ textContent # <<>>

\* C6: with loop=true, erase=true, eraseOnly=false and stop() never called the
\* effect never reaches cursor cleanup, onFinish or its return, and, unless it
\* is paused again and again forever, it writes, waits, erases and waits over
\* and over: the content is infinitely often initialText followed by text
\* (at the wait after the write) and infinitely often initialText (at the
\* wait after the erase).
C6_LoopNeverEnds ==
  /\ [](/\ pc \notin {"onFinish121", "returned"}
        /\ log = <<>>
        /\ promise = "pending"
        /\ loopControls = "none")
  /\ <>[](~paused) =>
       /\ []<>(pc = "delayEnd95" /\ textContent = initialText \o text)
       /\ []<>(pc = "delayEnd111" /\ textContent = initialText)

C6_Witness ==
  /\ loop /\ erase /\ ~eraseOnly /\ ~stopped
  /\ pc = "delayEnd111"
  /\ Len(text) = 2 /\ Len(hist) = 5 /\ textContent = initialText

\* C7: once stop() has been called on an effect that found its element, even
\* one left paused, the effect eventually returns, having done the cursor
\* cleanup (if it had added the cursor) and then invoked onFinish exactly once
\* (if provided), in that order, before resolving with the handle.
C7_StopLeadsToCompletion ==
  (elementFound /\ stopped) ~>
    (/\ pc = "returned"
     /\ promise = "controls"
     /\ log = ExpectedLog
     /\ (cursor /\ ~hadCursorBefore) => (~withCursor /\ blinkSpeed = Unset))

C7_Witness ==
  /\ stopped /\ paused /\ pc = "returned"
  /\ log = <<"cleanup", "onFinish", "return">>
  /\ loop /\ Len(text) = 2 /\ textContent = initialText \o <<text[1]>>

\* C9: with loop=true the caller that awaits the call obtains the handle and
\* stops the loop with it, so that it goes on to its next call (showcase
\* starts effect 5).
C9_LoopHandleUsable ==
  (elementFound /\ loop) ~> (callerPc = "await191" /\ stopped)

\* C11: stop() called on an effect that is already stopped, and resume()
\* called on one that is not paused, leave the whole state as it is: flags,
\* content and the position of the effect, and with them everything the
\* effect does afterwards, are what they are after the first stop(), or
\* without the resume().
C11_ControlsIdempotent ==
  [][/\ (stopped /\ Stop) => UNCHANGED vars
     /\ (~paused /\ Resume) => UNCHANGED vars]_vars

C11_Witness ==
  /\ HasControls /\ stopped /\ ~paused
  /\ pc = "char89" /\ Len(text) = 2 /\ i = 0

\* A character step: one more value assigned to the content since the reset.
CharStep == hist' = Append(hist, textContent')

\* C12: under every sequence of pause(), resume() and stop() calls, once
\* stopped is true it stays true, and from then on the effect performs no
\* character step, whether resume() is called or not.
C12_StoppedMonotonic == [][stopped => (stopped' /\ ~CharStep)]_vars

C12_Witness ==
  /\ stopped /\ ~paused /\ polled
  /\ pc = "returned" /\ Len(text) = 2 /\ textContent = initialText \o <<text[1]>>

\* The values the content takes, from the reset on (from the start in
\* erase-only mode), in a run of one loop body that is never paused nor
\* stopped: initialText plus the prefixes of text in growing order, then, with
\* erase, in shrinking order; in erase-only mode the prefixes of the content
\* found, in shrinking order.
NoPauseHist ==
  IF eraseOnly
  THEN [k \in 1..(Len(hist[1]) + 1) |-> SubSeq(hist[1], 1, Len(hist[1]) + 1 - k)]
  ELSE [k \in 1..(Len(text) + 1) |-> initialText \o SubSeq(text, 1, k - 1)]
         \o (IF erase
             THEN [k \in 1..Len(text) |->
                     initialText \o SubSeq(text, 1, Len(text) - k)]
             ELSE <<>>)

IsPrefix(a, b) == Len(a) <= Len(b) /\ a = SubSeq(b, 1, Len(a))

\* The loop body has assigned the content its first value.
AfterReset == eraseOnly \/ pc \notin {"idle", "delayStart61"}

\* C13: with loop=false, whatever pause() and resume() calls are made, the
\* values the content has taken are at every moment an initial part of those
\* of the run without pause, nothing repeated and nothing left out, and a run
\* that completes without stop() has taken exactly those values and ends with
\* the same content.
C13_PauseKeepsSequence ==
  (elementFound /\ ~loop /\ AfterReset) =>
    /\ IsPrefix(hist, NoPauseHist)
    /\ textContent = hist[Len(hist)]
    /\ Completed => hist = NoPauseHist

C13_Witness ==
  /\ Completed /\ ~loop /\ polled /\ ~paused
  /\ erase /\ ~eraseOnly /\ Len(text) = 2 /\ initialText # <<>>
  /\ Len(hist) = 5

\* The effect has returned: its loop has ended and the handle is out.
Terminated == elementFound /\ pc = "returned"

\* C14 as stated: after the effect has terminated a call of pause(), resume()
\* or stop() changes neither the content nor the values isPaused and
\* isStopped report.
C14_CallsAfterEndChangeNothing ==
  [][Terminated => UNCHANGED <<textContent, paused, stopped>>]_vars

\* C14 as amended: after the effect has terminated a call of pause(),
\* resume() or stop() changes neither the content nor the cursor state, and
\* the effect takes no further step; the call still writes its flag, which
\* isPaused and isStopped then report.
C14_CallsAfterEndKeepContent ==
  [][Terminated =>
       /\ UNCHANGED <<textContent, withCursor, blinkSpeed, pc, i, hist, log,
                      promise>>
       /\ Pause => (paused' /\ stopped' = stopped)
       /\ Resume => (~paused' /\ stopped' = stopped)
       /\ Stop => (stopped' /\ paused' = paused)]_vars

C14_Witness ==
  /\ Terminated /\ loopControls = "controls"
  /\ paused /\ stopped /\ ~polled
  /\ WriteOnly /\ Len(text) = 2 /\ textContent = initialText \o text

\* The awaits of a delay: start delay, character delays, pause polls and end
\* delays.
DelayPcs ==
  {"delayStart61", "char73", "char89", "char104", "delayEnd77", "delayEnd95",
   "delayEnd111"} \cup PollPcs

\* C15: once stop() has been called the effect starts no new delay: when the
\* delay in progress has elapsed it goes on to the cursor cleanup and the
\* callback, and suspends at nothing but the await of onFinish.
C15_StopStartsNoDelay ==
  [][(stopped /\ pc' # pc) => pc' \notin DelayPcs]_vars

\* C16: with loop=false and the element found, an effect that is not paused
\* for ever returns, after the cursor cleanup and the callback; the loop body
\* runs once: the effect never waits for a repetition and the content is
\* not reset a second time.
C16_SingleRunTerminates ==
  /\ [](~loop => pc \notin {"delayEnd77", "delayEnd111"})
  /\ [][(~loop /\ pc \notin {"idle", "delayStart61"}) => Len(hist') >= Len(hist)]_vars
  /\ <>[](~paused) =>
       ((elementFound /\ ~loop) ~>
          (pc = "returned" /\ promise = "controls" /\ log = ExpectedLog))

C16_Witness ==
  /\ elementFound /\ ~loop /\ pc = "returned" /\ ~stopped /\ ~paused /\ polled
  /\ log = <<"cleanup", "onFinish", "return">>
  /\ erase /\ ~eraseOnly /\ Len(text) = 2 /\ Len(hist) = 5

\* The erase-only loop with loop=true.
EraseOnlyLoop == elementFound /\ eraseOnly /\ loop

\* C17: in erase-only mode with loop=true, at each wait between iterations
\* the content is empty, the next iteration changes nothing and leads to the
\* same wait, and the effect does not end before stop() is called.
C17_EraseOnlyLoopIdles ==
  /\ [](EraseOnlyLoop =>
         /\ (pc = "delayEnd77" => textContent = <<>>)
         /\ (~stopped => pc \notin {"onFinish121", "returned"}))
  /\ [][(EraseOnlyLoop /\ pc = "delayEnd77" /\ ~stopped /\ ~stopped') =>
          (pc' = "delayEnd77" /\ UNCHANGED <<textContent, hist, i>>)]_vars

C17_Witness ==
  /\ EraseOnlyLoop /\ pc = "delayEnd77" /\ ~stopped
  /\ Len(hist) = 3 /\ textContent = <<>>

\* The container had the cursor marker before the call.
HadMarker == IF pc = "idle" THEN withCursor ELSE hadCursorBefore

\* C19: an effect that added the cursor marker and the blink-period property
\* has removed both when the callback runs and when it returns, on the
\* normal path and after stop(); an effect with cursor=false, or whose
\* container had the marker before the call, never changes either.
C19_CursorRestored ==
  /\ [](elementFound =>
         /\ (pc \in {"onFinish121", "returned"} /\ cursor /\ ~hadCursorBefore) =>
              /\ ~withCursor /\ blinkSpeed = Unset
              /\ log[1] = "cleanup"
         /\ (pc \in DelayPcs /\ cursor /\ ~hadCursorBefore) =>
              /\ withCursor
              /\ blinkSpeed = (IF cursorBlink THEN Ms(CursorBlinkSpeedMS) ELSE Ms(0)))
  /\ [][(~cursor \/ HadMarker) => UNCHANGED <<withCursor, blinkSpeed>>]_vars

C19_Witness ==
  /\ elementFound /\ cursor /\ ~hadCursorBefore /\ stopped
  /\ pc = "onFinish121" /\ ~withCursor /\ blinkSpeed = Unset
  /\ log = <<"cleanup", "onFinish">>

\* C20: in normal mode, from the first reset on, the content is always
\* initialText followed by a prefix of text, whatever pause(), resume() and
\* stop() calls are made and whatever loop and erase are: the erase phase
\* never removes a character of initialText.
C20_ContentIsInitialPlusPrefix ==
  (elementFound /\ ~eraseOnly /\ pc \notin {"idle", "delayStart61"}) =>
    /\ \E k \in 0..Len(text) : textContent = initialText \o SubSeq(text, 1, k)
    /\ \A n \in 1..Len(hist) :
         \E k \in 0..Len(text) : hist[n] = initialText \o SubSeq(text, 1, k)

C20_Witness ==
  /\ elementFound /\ ~eraseOnly /\ erase /\ loop /\ stopped /\ polled
  /\ pc = "returned" /\ initialText # <<>> /\ Len(text) = 2
  /\ textContent = initialText \o <<text[1]>> /\ Len(hist) = 4

\* The values that invocation r assigns to its content in one loop body when
\* it runs alone: NoPauseHist for the arguments and the element of r.
AloneHist(r) ==
  IF r.eraseOnly
  THEN [k \in 1..(Len(r.hist[1]) + 1) |->
          SubSeq(r.hist[1], 1, Len(r.hist[1]) + 1 - k)]
  ELSE [k \in 1..(Len(r.text) + 1) |-> r.initialText \o SubSeq(r.text, 1, k - 1)]
         \o (IF r.erase
             THEN [k \in 1..Len(r.text) |->
                     r.initialText \o SubSeq(r.text, 1, Len(r.text) - k)]
             ELSE <<>>)

\* Invocation r is where it can be when it runs alone: the values of its
\* content in the current loop body are an initial part of AloneHist, its
\* content is the last of them, and its element carries the cursor marker
\* from the call to the cleanup.
AsAlone(r) ==
  /\ (r.eraseOnly \/ r.pc \notin {"idle", "delayStart61"}) =>
       IsPrefix(r.hist, AloneHist(r))
  /\ r.textContent = r.hist[Len(r.hist)]
  /\ r.withCursor = (r.pc \in DelayPcs)
  /\ r.blinkSpeed = (IF r.pc \in DelayPcs THEN Ms(CursorBlinkSpeedMS) ELSE Unset)
  /\ (r.pc = "returned" /\ ~r.stopped) =>
       (r.hist = AloneHist(r) /\ r.log = <<"cleanup", "onFinish", "return">>)

====
